---- MODULE Spec2Model ----
(***************************************************************************)
(* The conversation controller of DB MATHSOLVER.AI (the App component and  *)
(* the solve request client it calls), as a state machine.  The React      *)
(* state of App is the state; every event handler, the mount effect and    *)
(* the continuation of processSolution after its await are one atomic      *)
(* action each, as they run to completion on the single UI thread.         *)
(***************************************************************************)
EXTENDS Naturals, Sequences, FiniteSets

VARIABLES
  messages,          \* useState<Message[]>            part_000:8
  inputValue,        \* useState('')                   part_000:9
  isSolving,         \* useState(false)                part_000:10
  selectedImage,     \* useState<string | null>(null)  part_000:12
  explanationLevel,  \* useState('standard')           part_000:13
  history,           \* useState<ChatHistoryItem[]>    part_000:14
  storage,           \* localStorage['math_solver_history']
  pending,           \* solveMathProblem calls awaiting settlement, each with
                     \* the closure of the render that issued it
  now,               \* the reading of Date.now()
  loaded,            \* the mount effect (part_000:21-24) has run
  mounted,           \* the React tree is mounted (no render has thrown)
  nSubmits,          \* history variable: accepted submits of this session
  nSaved,            \* history variable: ordinal of the last saved solve
  noClear,           \* history variable: no clearHistory so far
  last               \* history variable: the handler that ran last

vars == <<messages, inputValue, isSolving, selectedImage, explanationLevel,
          history, storage, pending, now, loaded, mounted, nSubmits, nSaved,
          noClear, last>>

-----------------------------------------------------------------------------
(* Bounds of the model.                                                    *)
MaxSubmits == 2
MaxMessages == 4
MaxClock == 2
MaxOver == 2
MaxTexLen == 3

(* Constants of the program.                                               *)
HistoryCap == 20
TitleMax == 30

-----------------------------------------------------------------------------
(* JavaScript values.  A string is a tuple of characters; a value that may *)
(* be undefined or null is a record tagged with its type.                  *)
Undefined == [t |-> "undefined", v |-> <<>>]
Null == [t |-> "null", v |-> <<>>]
Str(s) == [t |-> "string", v |-> s]
Arr == [t |-> "array", v |-> <<>>]

Min(a, b) == IF a < b THEN a ELSE b

\* JavaScript truthiness of a tagged value
Truthy(x) == /\ x.t \notin {"undefined", "null"}
             /\ ~(x.t = "string" /\ x.v = <<>>)

\* a || b
Or(a, b) == IF Truthy(a) THEN a ELSE b

\* The WhiteSpace and LineTerminator code points String.prototype.trim
\* strips.  A character is a string of length one; a character outside
\* ASCII is written as its code point, "U+00A0" for the no-break space.
AsciiWhiteSpace == {"\t", "\n", "", "\f", "\r", " "}
UnicodeWhiteSpace ==
  {"U+00A0", "U+1680", "U+2000", "U+2001", "U+2002", "U+2003", "U+2004",
   "U+2005", "U+2006", "U+2007", "U+2008", "U+2009", "U+200A", "U+2028",
   "U+2029", "U+202F", "U+205F", "U+3000", "U+FEFF"}
WhiteSpace == AsciiWhiteSpace \cup UnicodeWhiteSpace

RECURSIVE TrimStart(_)
TrimStart(s) == IF s = <<>> THEN s
                ELSE IF Head(s) \in WhiteSpace THEN TrimStart(Tail(s)) ELSE s

RECURSIVE TrimEnd(_)
TrimEnd(s) == IF s = <<>> THEN s
              ELSE IF s[Len(s)] \in WhiteSpace
                   THEN TrimEnd(SubSeq(s, 1, Len(s) - 1)) ELSE s

\* String.prototype.trim
Trim(s) == TrimEnd(TrimStart(s))

\* String.prototype.substring(a, b) for 0 <= a <= b
Substring(s, a, b) == SubSeq(s, a + 1, Min(b, Len(s)))

Digits == <<"0", "1", "2", "3", "4", "5", "6", "7", "8", "9">>

\* Number.prototype.toString of a natural number
RECURSIVE ToString(_)
ToString(n) == IF n < 10 THEN <<Digits[n + 1]>>
               ELSE ToString(n \div 10) \o <<Digits[(n % 10) + 1]>>

-----------------------------------------------------------------------------
(* The string literals of the program.                                     *)

\* part_000:91
FallbackText ==
  <<"I", " ", "r", "a", "n", " ", "i", "n", "t", "o", " ", "a",
     " ", "p", "r", "o", "b", "l", "e", "m", " ", "c", "a", "l",
     "c", "u", "l", "a", "t", "i", "o", "n", ".", " ", "P", "l",
     "e", "a", "s", "e", " ", "c", "h", "e", "c", "k", " ", "y",
     "o", "u", "r", " ", "c", "o", "n", "n", "e", "c", "t", "i",
     "o", "n", " ", "o", "r", " ", "t", "r", "y", " ", "a", " ",
     "d", "i", "f", "f", "e", "r", "e", "n", "t", " ", "q", "u",
     "e", "s", "t", "i", "o", "n", ".">>

\* part_000:63
HelpText ==
  <<"H", "e", "l", "p", " ", "m", "e", " ", "s", "o", "l", "v",
     "e", " ", "t", "h", "i", "s", " ", "i", "m", "a", "g", "e",
     ".">>

\* part_000:86
MathProblem ==
  <<"M", "a", "t", "h", " ", "P", "r", "o", "b", "l", "e", "m">>

Ellipsis == <<".", ".", ".">>

-----------------------------------------------------------------------------
(* The solve request client (geminiService.ts).                            *)

\* A value JSON.parse can return here: null, or an object whose fields are
\* each present or missing.  concepts and steps are arrays when present.
Obj(d, c, s, f) == [t |-> "object", description |-> d, concepts |-> c,
                    steps |-> s, finalAnswer |-> f, tutoringTip |-> Undefined]
JsonNull == [t |-> "null", description |-> Undefined, concepts |-> Undefined,
             steps |-> Undefined, finalAnswer |-> Undefined,
             tutoringTip |-> Undefined]
NoMetadata == [t |-> "undefined", description |-> Undefined,
               concepts |-> Undefined, steps |-> Undefined,
               finalAnswer |-> Undefined, tutoringTip |-> Undefined]
EmptyObject == Obj(Undefined, Undefined, Undefined, Undefined)

Description == <<"x", "+", "1", "=", "2">>
Answer == <<"$", "x", "=", "1", "$">>

\* The payloads the backend is made to return in this model: a solution of
\* the schema, the empty object, and null.
Solution == Obj(Str(Description), Arr, Arr, Str(Answer))
Payloads == {Solution, EmptyObject, JsonNull}

\* response.text: a JSON text (modelled by the value it denotes), a text
\* that is not JSON, or the empty text
JsonText(p) == [syntax |-> "json", value |-> p]
InvalidText == [syntax |-> "invalid", value |-> JsonNull]
EmptyText == [syntax |-> "empty", value |-> JsonNull]

\* What ai.models.generateContent settles with
NetworkError == [net |-> "rejected", text |-> EmptyText]
Response(txt) == [net |-> "fulfilled", text |-> txt]

BackendResponses ==
  {NetworkError, Response(InvalidText), Response(EmptyText)}
    \cup {Response(JsonText(p)) : p \in Payloads}

Thrown == [ok |-> FALSE, value |-> JsonNull]
Returned(p) == [ok |-> TRUE, value |-> p]

\* JSON.parse of a response text
JSONParse(txt) == IF txt.syntax = "json" THEN Returned(txt.value) ELSE Thrown

\* solveMathProblem, from the settlement of generateContent on: the value it
\* resolves with, or Thrown when it rejects
solveMathProblem(resp) ==
  IF resp.net = "rejected" THEN Thrown
  ELSE JSONParse(IF resp.text.syntax = "empty" THEN JsonText(EmptyObject)
                 ELSE resp.text)

\* JSON.stringify of a payload, abridged to the keys it writes
JSONStringify(p) ==
  IF p.t = "null" THEN <<"n", "u", "l", "l">>
  ELSE <<"{">>
       \o (IF p.description.t = "undefined" THEN <<>> ELSE <<"d">>)
       \o (IF p.concepts.t = "undefined" THEN <<>> ELSE <<"c">>)
       \o (IF p.steps.t = "undefined" THEN <<>> ELSE <<"s">>)
       \o (IF p.finalAnswer.t = "undefined" THEN <<>> ELSE <<"f">>)
       \o (IF p.tutoringTip.t = "undefined" THEN <<>> ELSE <<"t">>)
       \o <<"}">>

\* MathResponse reads data.concepts.map and data.steps.map while rendering:
\* a metadata object without them makes the render throw
RenderThrows(msg) ==
  /\ msg.role = "assistant"
  /\ msg.metadata.t = "object"
  /\ \/ msg.metadata.concepts.t # "array"
     \/ msg.metadata.steps.t # "array"

-----------------------------------------------------------------------------
(* Messages and history entries (part_001).                                *)

NoImage == Null
Image == Str(<<"d", "a", "t", "a", ":", "p", "n", "g">>)

\* part_000:60-67
\* Each Date.now() of the code is a reading of its own: tid is the one that
\* gives the id, tts the one that gives the timestamp
UserMsg(text, image, tid, tts) ==
  [id |-> ToString(tid), role |-> "user",
   content |-> IF text # <<>> THEN text ELSE HelpText,
   image |-> IF Truthy(image) THEN image ELSE Undefined,
   timestamp |-> tts,
   type |-> IF Truthy(image) THEN "image" ELSE "text",
   metadata |-> NoMetadata]

\* Mutant: the assistant message is built without its metadata
AssistantMsgNoMetadata(responseData, tid, tts) ==
  [id |-> ToString(tid + 1), role |-> "assistant",
   content |-> JSONStringify(responseData),
   image |-> Undefined, timestamp |-> tts, type |-> "undefined",
   metadata |-> NoMetadata]

\* part_000:77-83
AssistantMsg(responseData, tid, tts) ==
  [id |-> ToString(tid + 1), role |-> "assistant",
   content |-> JSONStringify(responseData),
   image |-> Undefined, timestamp |-> tts, type |-> "undefined",
   metadata |-> responseData]

\* part_000:88-93
FallbackMsg(tid, tts) ==
  [id |-> ToString(tid + 1), role |-> "assistant", content |-> FallbackText,
   image |-> Undefined, timestamp |-> tts, type |-> "undefined",
   metadata |-> NoMetadata]

\* Array.prototype.slice(a, b) for 0 <= a <= b
Slice(s, a, b) == SubSeq(s, a + 1, Min(b, Len(s)))

\* Mutant: a title of exactly TitleMax characters is cut too
TitleOfOffByOne(title) ==
  IF Len(title) >= TitleMax THEN Substring(title, 0, TitleMax) \o Ellipsis
  ELSE title

\* part_000:37
TitleOf(title) ==
  IF Len(title) > TitleMax THEN Substring(title, 0, TitleMax) \o Ellipsis
  ELSE title

\* part_000:35-40; ord is a history variable, the ordinal of the solve
NewItem(title, lastMsg, tid, tts, ord) ==
  [id |-> ToString(tid), title |-> TitleOf(title), timestamp |-> tts,
   lastMessage |-> lastMsg, ord |-> ord]

\* Mutant: the new entry is prepended and nothing is cut off
saveToHistoryNoCap(hist, title, lastMsg, tid, tts, ord) ==
  <<NewItem(title, lastMsg, tid, tts, ord)>> \o hist

\* part_000:41, over the history the calling render closed over
saveToHistory(hist, title, lastMsg, tid, tts, ord) ==
  Slice(<<NewItem(title, lastMsg, tid, tts, ord)>> \o hist, 0, HistoryCap)

\* JSON.stringify of the history array: a property that is undefined is
\* left out of the text
Omitted == [t |-> "omitted", v |-> <<>>]
StringifyItem(e) ==
  [e EXCEPT !.lastMessage = IF @.t = "undefined" THEN Omitted ELSE @]
ParseItem(e) ==
  [e EXCEPT !.lastMessage = IF @.t = "omitted" THEN Undefined ELSE @]
StringifyHistory(h) == [i \in 1..Len(h) |-> StringifyItem(h[i])]
ParseHistory(txt) == [i \in 1..Len(txt) |-> ParseItem(txt[i])]

\* localStorage: the key is absent, or holds the text of an array
Absent == [present |-> FALSE, text |-> <<>>]
Stored(h) == [present |-> TRUE, text |-> StringifyHistory(h)]

\* What an earlier session of the program left in the store: nothing, or
\* the entries of its n most recent solves, newest first
OldTitle == <<"o", "l", "d">>
PriorHistory(n) ==
  [i \in 1..n |-> NewItem(OldTitle, Str(Answer), 0, 0, n - i + 1)]
PriorLengths == {HistoryCap - 1, HistoryCap}
PriorStores == {Absent} \cup {Stored(PriorHistory(n)) : n \in PriorLengths}

-----------------------------------------------------------------------------
(* The state after construction.                                           *)

Levels == {"quick", "standard", "deep"}      \* the buttons of part_000:162
InputValues == {<<>>, <<" ", "\n">>, <<"2", "x">>}

\* The history variable last: the handler that ran, how it ended, the type
\* of the value the call returned, the length of the log before the submit
\* it belongs to, whether the log was cleared under the call, and how many
\* messages it appended
Step(op, outcome, data, pre, cleared, appended) ==
  [op |-> op, outcome |-> outcome, data |-> data, pre |-> pre,
   cleared |-> cleared, appended |-> appended]
Did(op, outcome) == Step(op, outcome, "", 0, FALSE, 0)

Init ==
  /\ messages = <<>>
  /\ inputValue = <<>>
  /\ isSolving = FALSE
  /\ selectedImage = NoImage
  /\ explanationLevel = "standard"
  /\ history = <<>>
  /\ storage \in PriorStores
  /\ pending = {}
  /\ now = 1
  /\ loaded = FALSE
  /\ mounted = TRUE
  /\ nSubmits = 0
  /\ nSaved = Len(storage.text)
  /\ noClear = TRUE
  /\ last = Did("construct", "")

-----------------------------------------------------------------------------
(* The handlers.                                                           *)

\* Mutant: the startup effect does not read the store
loadHistoryIgnoresStore ==
  /\ mounted /\ ~loaded
  /\ loaded' = TRUE
  /\ last' = Did("stage", "")
  /\ UNCHANGED <<messages, inputValue, isSolving, selectedImage,
                 explanationLevel, history, storage, pending, now, mounted,
                 nSubmits, nSaved, noClear>>

\* part_000:21-24, the effect of the first render
loadHistory ==
  /\ mounted /\ ~loaded
  /\ loaded' = TRUE
  /\ history' = IF storage.present THEN ParseHistory(storage.text)
                ELSE history
  /\ last' = Did("stage", "")
  /\ UNCHANGED <<messages, inputValue, isSolving, selectedImage,
                 explanationLevel, storage, pending, now, mounted, nSubmits,
                 nSaved, noClear>>

\* part_000:282, onChange of the text input
setInputValue(v) ==
  /\ mounted /\ loaded
  /\ inputValue' = v
  /\ last' = Did("stage", "")
  /\ UNCHANGED <<messages, isSolving, selectedImage, explanationLevel,
                 history, storage, pending, now, loaded, mounted, nSubmits,
                 nSaved, noClear>>

\* part_000:291 and 319 (an image is staged), 272 (it is removed)
setSelectedImage(img) ==
  /\ mounted /\ loaded
  /\ selectedImage' = img
  /\ last' = Did("stage", "")
  /\ UNCHANGED <<messages, inputValue, isSolving, explanationLevel, history,
                 storage, pending, now, loaded, mounted, nSubmits, nSaved,
                 noClear>>

\* part_000:165
setExplanationLevel(lvl) ==
  /\ mounted /\ loaded
  /\ explanationLevel' = lvl
  /\ last' = Did("stage", "")
  /\ UNCHANGED <<messages, inputValue, isSolving, selectedImage, history,
                 storage, pending, now, loaded, mounted, nSubmits, nSaved,
                 noClear>>

\* The clear actions leave the outstanding call alone; the history variable
\* cleared records that the log was emptied under it.
MarkCleared == {[r EXCEPT !.cleared = TRUE] : r \in pending}

\* Mutant: clearing the conversation clears the history with it
clearConversationAlsoHistory ==
  /\ mounted /\ loaded
  /\ messages' = <<>>
  /\ history' = <<>>
  /\ storage' = Absent
  /\ pending' = MarkCleared
  /\ last' = Did("clearConversation", "")
  /\ UNCHANGED <<inputValue, isSolving, selectedImage, explanationLevel, now,
                 loaded, mounted, nSubmits, nSaved, noClear>>

\* part_000:172
clearConversation ==
  /\ mounted /\ loaded
  /\ messages' = <<>>
  /\ pending' = MarkCleared
  /\ last' = Did("clearConversation", "")
  /\ UNCHANGED <<inputValue, isSolving, selectedImage, explanationLevel,
                 history, storage, now, loaded, mounted, nSubmits, nSaved,
                 noClear>>

\* Mutant: the key is left in localStorage
clearHistoryKeepsStore ==
  /\ mounted /\ loaded
  /\ messages' = <<>>
  /\ history' = <<>>
  /\ pending' = MarkCleared
  /\ noClear' = FALSE
  /\ last' = Did("clearHistory", "")
  /\ UNCHANGED <<inputValue, isSolving, selectedImage, explanationLevel,
                 storage, now, loaded, mounted, nSubmits, nSaved>>

\* part_000:139
clearHistory ==
  /\ mounted /\ loaded
  /\ messages' = <<>>
  /\ history' = <<>>
  /\ storage' = Absent
  /\ pending' = MarkCleared
  /\ noClear' = FALSE
  /\ last' = Did("clearHistory", "")
  /\ UNCHANGED <<inputValue, isSolving, selectedImage, explanationLevel, now,
                 loaded, mounted, nSubmits, nSaved>>

\* Mutant: processSolution without its guard on isSolving
\* The readings of Date.now() a handler makes, in order: the clock does not
\* go back, and it may move on between two readings of one handler
Readings(n) ==
  {c \in [1..n -> now..MaxClock] : \A i \in 1..(n - 1) : c[i] <= c[i + 1]}
\* The same while the clock stands still
Steady(n) == {[i \in 1..n |-> now]}

processSolutionNoGuard(text, image, c) ==
  /\ isSolving' = TRUE
  /\ messages' = Append(messages, UserMsg(text, image, c[1], c[2]))
  /\ inputValue' = <<>>
  /\ selectedImage' = NoImage
  /\ pending' = pending \cup
       {[call |-> nSubmits + 1, text |-> text, history |-> history,
         pre |-> Len(messages), cleared |-> FALSE]}
  /\ nSubmits' = nSubmits + 1
  /\ now' = c[2]
  /\ last' = Step("handleSend", "accepted", "", Len(messages), FALSE, 1)
  /\ UNCHANGED <<explanationLevel, history, storage, loaded, mounted,
                 nSaved, noClear>>

\* part_000:56-75, up to the await, with the readings c of :61 and :65: the guard, the user message, the staging
\* state cleared, and the call issued.  What the continuation reads of the
\* render that issued the call stays with the call: text and history (the
\* level and the image go into the request, whose answer is any response);
\* pre and cleared are history variables.
processSolution(text, image, c) ==
  IF isSolving
  THEN /\ last' = Did("handleSend", "dropped")
       /\ UNCHANGED <<messages, inputValue, isSolving, selectedImage,
                      explanationLevel, history, storage, pending, now,
                      loaded, mounted, nSubmits, nSaved, noClear>>
  ELSE /\ isSolving' = TRUE
       /\ messages' = Append(messages, UserMsg(text, image, c[1], c[2]))
       /\ inputValue' = <<>>
       /\ selectedImage' = NoImage
       /\ pending' = pending \cup
            {[call |-> nSubmits + 1, text |-> text, history |-> history,
              pre |-> Len(messages), cleared |-> FALSE]}
       /\ nSubmits' = nSubmits + 1
       /\ now' = c[2]
       /\ last' = Step("handleSend", "accepted", "", Len(messages), FALSE, 1)
       /\ UNCHANGED <<explanationLevel, history, storage, loaded,
                      mounted, nSaved, noClear>>

\* Mutant: handleSend without its check of the input
handleSendNoCheck(c) ==
  /\ mounted /\ loaded
  /\ processSolution(inputValue, selectedImage, c)

\* part_000:99-102
handleSend(c) ==
  /\ mounted /\ loaded
  /\ IF Trim(inputValue) = <<>> /\ ~Truthy(selectedImage)
     THEN /\ last' = Did("handleSend", "rejected")
          /\ UNCHANGED <<messages, inputValue, isSolving, selectedImage,
                         explanationLevel, history, storage, pending, now,
                         loaded, mounted, nSubmits, nSaved, noClear>>
     ELSE processSolution(inputValue, selectedImage, c)

\* part_000:86, the argument of saveToHistory
TitleSource(responseData, text) ==
  Or(responseData.description, Or(Str(text), Str(MathProblem))).v

\* Mutant: the catch block appends nothing
AppendedNoFallback(res, c) ==
  IF ~res.ok THEN <<>>
  ELSE IF res.value.t = "null" THEN <<AssistantMsg(res.value, c[1], c[2])>>
       ELSE <<AssistantMsg(res.value, c[1], c[2])>>

\* part_000:75-96, from the settlement of the call r on: the try block with
\* what solveMathProblem returned, the catch block when it threw or when the
\* try block throws (reading a property of null), then the finally block.
\* The readings c are those of :78 and :81 and then :36 and :38 in the try
\* block; the catch block reads at :89 and :92, first of all when the call
\* threw, after :78 and :81 when the try block throws.
Appended(res, c) ==
  IF ~res.ok THEN <<FallbackMsg(c[1], c[2])>>
  ELSE IF res.value.t = "null"
       THEN <<AssistantMsg(res.value, c[1], c[2]), FallbackMsg(c[3], c[4])>>
       ELSE <<AssistantMsg(res.value, c[1], c[2])>>

\* The last reading the continuation makes
LastReading(res, c) == IF res.ok THEN c[4] ELSE c[2]

Saves(res) == res.ok /\ res.value.t = "object"

\* Mutant: setIsSolving(false) at the end of the try block instead of in a
\* finally block
processSolutionResumeNoFinally(r, resp, c) ==
  LET res == solveMathProblem(resp)
      updated == saveToHistory(r.history, TitleSource(res.value, r.text),
                               res.value.finalAnswer, c[3], c[4], nSaved + 1)
  IN /\ mounted
     /\ r \in pending
     /\ pending' = pending \ {r}
     /\ messages' = messages \o Appended(res, c)
     /\ IF Saves(res)
        THEN /\ history' = updated
             /\ storage' = Stored(updated)
             /\ nSaved' = nSaved + 1
        ELSE UNCHANGED <<history, storage, nSaved>>
     /\ isSolving' = IF Saves(res) THEN FALSE ELSE isSolving
     /\ mounted' = ~(\E i \in 1..Len(Appended(res, c)) :
                        RenderThrows(Appended(res, c)[i]))
     /\ last' = Step("settled", IF res.ok THEN "fulfilled" ELSE "rejected",
                     res.value.t, r.pre, r.cleared, Len(Appended(res, c)))
     /\ now' = LastReading(res, c)
     /\ UNCHANGED <<inputValue, selectedImage, explanationLevel, loaded,
                    nSubmits, noClear>>

\* Mutant: the result of a call is dropped when the log was cleared under it
processSolutionResumeDiscardStale(r, resp, c) ==
  LET res == solveMathProblem(resp)
      updated == saveToHistory(r.history, TitleSource(res.value, r.text),
                               res.value.finalAnswer, c[3], c[4], nSaved + 1)
  IN /\ mounted
     /\ r \in pending
     /\ pending' = pending \ {r}
     /\ messages' = IF r.cleared THEN messages ELSE messages \o Appended(res, c)
     /\ IF Saves(res) /\ ~r.cleared
        THEN /\ history' = updated
             /\ storage' = Stored(updated)
             /\ nSaved' = nSaved + 1
        ELSE UNCHANGED <<history, storage, nSaved>>
     /\ isSolving' = FALSE
     /\ mounted' = ~(\E i \in 1..Len(Appended(res, c)) :
                        ~r.cleared /\ RenderThrows(Appended(res, c)[i]))
     /\ last' = Step("settled", IF res.ok THEN "fulfilled" ELSE "rejected",
                     res.value.t, r.pre, r.cleared, Len(Appended(res, c)))
     /\ now' = LastReading(res, c)
     /\ UNCHANGED <<inputValue, selectedImage, explanationLevel, loaded,
                    nSubmits, noClear>>

processSolutionResume(r, resp, c) ==
  LET res == solveMathProblem(resp)
      updated == saveToHistory(r.history, TitleSource(res.value, r.text),
                               res.value.finalAnswer, c[3], c[4], nSaved + 1)
  IN /\ mounted
     /\ r \in pending
     /\ pending' = pending \ {r}
     /\ messages' = messages \o Appended(res, c)
     /\ IF Saves(res)
        THEN /\ history' = updated
             /\ storage' = Stored(updated)
             /\ nSaved' = nSaved + 1
        ELSE UNCHANGED <<history, storage, nSaved>>
     /\ isSolving' = FALSE
     /\ mounted' = ~(\E i \in 1..Len(Appended(res, c)) :
                        RenderThrows(Appended(res, c)[i]))
     /\ last' = Step("settled", IF res.ok THEN "fulfilled" ELSE "rejected",
                     res.value.t, r.pre, r.cleared, Len(Appended(res, c)))
     /\ now' = LastReading(res, c)
     /\ UNCHANGED <<inputValue, selectedImage, explanationLevel, loaded,
                    nSubmits, noClear>>

\* Date.now() moves on
Tick ==
  /\ now < MaxClock
  /\ now' = now + 1
  /\ UNCHANGED <<messages, inputValue, isSolving, selectedImage,
                 explanationLevel, history, storage, pending, loaded, mounted,
                 nSubmits, nSaved, noClear, last>>

-----------------------------------------------------------------------------
(* The user stops submitting once the session is as long as the model      *)
(* allows; a send that the handlers ignore is always possible.             *)
WithinBounds ==
  \/ isSolving
  \/ Trim(inputValue) = <<>> /\ ~Truthy(selectedImage)
  \/ nSubmits < MaxSubmits /\ Len(messages) + 2 <= MaxMessages

\* The program while the clock stands still
Next ==
  \/ loadHistory
  \/ \E v \in InputValues : setInputValue(v)
  \/ \E img \in {NoImage, Image} : setSelectedImage(img)
  \/ \E lvl \in Levels : setExplanationLevel(lvl)
  \/ \E c \in Steady(2) : WithinBounds /\ handleSend(c)
  \/ \E r \in pending, resp \in BackendResponses, c \in Steady(4) :
       processSolutionResume(r, resp, c)
  \/ clearConversation
  \/ clearHistory

Spec == Init /\ [][Next]_vars

\* The program with the clock moving on, between the handlers and between
\* the readings of one handler
NextClock ==
  \/ loadHistory
  \/ \E v \in InputValues : setInputValue(v)
  \/ \E img \in {NoImage, Image} : setSelectedImage(img)
  \/ \E lvl \in Levels : setExplanationLevel(lvl)
  \/ \E c \in Readings(2) : WithinBounds /\ handleSend(c)
  \/ \E r \in pending, resp \in BackendResponses, c \in Readings(4) :
       processSolutionResume(r, resp, c)
  \/ clearConversation
  \/ clearHistory
  \/ Tick
SpecClock == Init /\ [][NextClock]_vars

-----------------------------------------------------------------------------
(* The properties.                                                         *)

NumUser(log) == Cardinality({i \in 1..Len(log) : log[i].role = "user"})
Calls(reqs) == {r.call : r \in reqs}
LastMsg == messages[Len(messages)]

\* C1: while a call is outstanding (isSolving), no step appends a user
\* message or issues a further call, and a send made then changes nothing:
\* it is dropped.
C1_SubmitWhileSolvingDropped ==
  [][isSolving =>
       /\ NumUser(messages') <= NumUser(messages)
       /\ Calls(pending') \subseteq Calls(pending)
       /\ last'.op = "handleSend" =>
            UNCHANGED <<messages, isSolving, pending, history, storage,
                        inputValue, selectedImage>>]_vars

C1_Witness ==
  /\ isSolving
  /\ last.op = "handleSend" /\ last.outcome = "dropped"
  /\ Trim(inputValue) # <<>>

\* C2: in every reachable state at most one call is outstanding, and
\* isSolving holds exactly when one is.
C2_AtMostOneInFlight ==
  /\ Cardinality(pending) <= 1
  /\ isSolving <=> pending # {}

C2_Witness ==
  /\ isSolving
  /\ \E r \in pending : r.cleared /\ r.call = MaxSubmits
  /\ last.op = "handleSend" /\ last.outcome = "dropped"
  /\ explanationLevel = "deep"

\* C3: a send with text that is blank after trimming and no staged image
\* changes neither the log, isSolving, the outstanding calls, the history nor
\* the store.
C3_BlankSubmitNoOp ==
  [][(/\ Trim(inputValue) = <<>>
      /\ ~Truthy(selectedImage)
      /\ last'.op = "handleSend")
       => UNCHANGED <<messages, isSolving, pending, history, storage>>]_vars

C3_Witness ==
  /\ last.op = "handleSend" /\ last.outcome = "rejected"
  /\ inputValue = <<" ", "\n">>
  /\ ~isSolving

\* C4 as stated: after a call that returned a solution object has been
\* applied, the log is 2 longer than just before the submit: the user
\* message, then the assistant message carrying the object as metadata.
SettledWithSolution ==
  last.op = "settled" /\ last.outcome = "fulfilled" /\ last.data = "object"

C4_Original ==
  SettledWithSolution =>
    /\ Len(messages) = last.pre + 2
    /\ messages[Len(messages) - 1].role = "user"
    /\ LastMsg.role = "assistant"
    /\ LastMsg.metadata.t = "object"

\* C4 amended: the log is 2 longer than just before the submit when it was
\* not cleared while the call was outstanding; when it was, the log is the
\* assistant message alone.  Either way that message carries the object as
\* metadata.
C4_SuccessAppendsTwo ==
  SettledWithSolution =>
    /\ Len(messages) = IF last.cleared THEN 1 ELSE last.pre + 2
    /\ ~last.cleared => messages[Len(messages) - 1].role = "user"
    /\ LastMsg.role = "assistant"
    /\ LastMsg.metadata.t = "object"
    /\ last.appended = 1

C4_Witness ==
  /\ SettledWithSolution
  /\ ~last.cleared
  /\ last.pre = 2
  /\ Len(messages) = 4
  /\ LastMsg.metadata = Solution

\* C5 as stated: after a call that failed has been applied, the log is 2
\* longer than just before the submit, and the assistant message appended
\* has the fallback text and no metadata.
SettledWithError == last.op = "settled" /\ last.outcome = "rejected"

C5_Original ==
  SettledWithError =>
    /\ Len(messages) = last.pre + 2
    /\ LastMsg.role = "assistant"
    /\ LastMsg.content = FallbackText
    /\ LastMsg.metadata.t = "undefined"

\* C5 amended: the log is 2 longer than just before the submit when it was
\* not cleared while the call was outstanding; when it was, the log is the
\* fallback message alone.  Either way that message has the fallback text
\* and no metadata.
C5_FailureAppendsFallback ==
  SettledWithError =>
    /\ Len(messages) = IF last.cleared THEN 1 ELSE last.pre + 2
    /\ ~last.cleared => messages[Len(messages) - 1].role = "user"
    /\ LastMsg.role = "assistant"
    /\ LastMsg.content = FallbackText
    /\ LastMsg.metadata.t = "undefined"
    /\ last.appended = 1

C5_Witness ==
  /\ SettledWithError
  /\ ~last.cleared
  /\ last.pre = 2
  /\ Len(messages) = 4
  /\ LastMsg.content = FallbackText

\* C6: the history and the store never hold more than HistoryCap entries;
\* as long as the history has not been cleared they hold exactly the
\* min(HistoryCap, n) most recent of the n solves saved, newest first.
MostRecent(h) ==
  /\ Len(h) = Min(nSaved, HistoryCap)
  /\ \A i \in 1..Len(h) : h[i].ord = nSaved - i + 1

C6_HistoryCapped ==
  /\ Len(history) <= HistoryCap
  /\ Len(storage.text) <= HistoryCap
  /\ (noClear /\ loaded) => MostRecent(history)
  /\ noClear => MostRecent(storage.text)

C6_Witness ==
  /\ noClear
  /\ last.op = "settled"
  /\ nSaved = HistoryCap + 2
  /\ Len(history) = HistoryCap
  /\ history[1].ord = nSaved
  /\ history[HistoryCap].ord = 3

\* C7: whenever clearHistory has run, also under an outstanding call, the
\* log and the history are empty and the store has no entry.
C7_ClearHistoryEmptiesAll ==
  last.op = "clearHistory" =>
    /\ messages = <<>>
    /\ history = <<>>
    /\ ~storage.present

C7_Witness ==
  /\ last.op = "clearHistory"
  /\ isSolving
  /\ \E r \in pending : r.cleared /\ r.pre = 2 /\ Len(r.history) = HistoryCap

\* C8: clearConversation empties the log and leaves the history, the store,
\* the explanation level and isSolving as they were.
C8_ClearConversationFrame ==
  [][last'.op = "clearConversation" =>
       /\ messages' = <<>>
       /\ UNCHANGED <<history, storage, explanationLevel, isSolving>>]_vars

C8_Witness ==
  /\ last.op = "clearConversation"
  /\ messages = <<>>
  /\ Len(history) = HistoryCap
  /\ storage.present
  /\ explanationLevel = "quick"
  /\ isSolving

\* C9 as stated: an accepted submit leaves the user message last in the log
\* with its one call issued; when the call has settled, whatever it settled
\* with, exactly one assistant message has been appended and no call is
\* outstanding.
C9_OneCallOneAnswer ==
  /\ (last.op = "handleSend" /\ last.outcome = "accepted") =>
       /\ LastMsg.role = "user"
       /\ Cardinality(pending) = 1
  /\ last.op = "settled" =>
       /\ pending = {}
       /\ last.appended = 1
       /\ LastMsg.role = "assistant"

\* C10: clearing the log leaves an outstanding call outstanding, and when
\* the call settles its messages are appended to the cleared log, which
\* then holds them and no user message.
C10_StaleResultApplied ==
  /\ [](last.op = "settled" /\ last.cleared =>
          /\ last.appended >= 1
          /\ Len(messages) = last.appended
          /\ NumUser(messages) = 0)
  /\ [][(isSolving /\ last'.op \in {"clearConversation", "clearHistory"}) =>
          /\ isSolving'
          /\ Calls(pending') = Calls(pending)
          /\ \A r \in pending' : r.cleared]_vars

C10_Witness ==
  /\ last.op = "settled" /\ last.cleared
  /\ last.pre = 2
  /\ Len(messages) = 1
  /\ messages[1].role = "assistant"
  /\ messages[1].metadata = Solution

\* The schema of geminiService.ts:58-82: the required fields are there
Conforms(p) ==
  /\ p.t = "object"
  /\ p.description.t = "string"
  /\ p.concepts.t = "array"
  /\ p.steps.t = "array"
  /\ p.finalAnswer.t = "string"

\* C11 as stated: a call that failed in transport or whose body violates
\* the schema ends in the fallback message without metadata; so every
\* object that is the metadata of a message, and every entry of the
\* history, comes from a body that conforms.
C11_SchemaViolationIsFailure ==
  /\ SettledWithError =>
       /\ LastMsg.content = FallbackText
       /\ LastMsg.metadata.t = "undefined"
  /\ \A i \in 1..Len(messages) :
       messages[i].metadata.t = "object" => Conforms(messages[i].metadata)
  /\ \A i \in 1..Len(history) : history[i].lastMessage.t = "string"

\* C12 as stated, its safety part: once a call has settled, isSolving is
\* false and the application still takes a submit.
C12_NoErrorFatal ==
  last.op = "settled" => (~isSolving /\ mounted)

-----------------------------------------------------------------------------
(* Titles: the program under solutions whose descriptions, and texts whose *)
(* lengths, lie on both sides of TitleMax.                                 *)

TitleChars(n) == [i \in 1..n |-> Digits[(i % 10) + 1]]
TitleLengths == {0, 1, TitleMax - 1, TitleMax}
                  \cup ((TitleMax + 1)..(TitleMax + MaxOver))
TitleResponses ==
  {Response(JsonText(Obj(Str(TitleChars(n)), Arr, Arr, Str(Answer)))) :
     n \in TitleLengths}
LongText == [i \in 1..(TitleMax + 1) |-> "x"]
TitleInputs == {<<"2", "x">>, LongText}

NextTitle ==
  \/ loadHistory
  \/ \E v \in TitleInputs : setInputValue(v)
  \/ \E c \in Steady(2) : WithinBounds /\ handleSend(c)
  \/ \E r \in pending, resp \in TitleResponses, c \in Steady(4) :
       processSolutionResume(r, resp, c)

SpecTitle == Init /\ [][NextTitle]_vars

\* The title source of the solve that settled last: its description, or
\* the text of its user message when the description is empty
LastTitleSource ==
  IF LastMsg.metadata.description.v # <<>>
  THEN LastMsg.metadata.description.v
  ELSE messages[Len(messages) - 1].content

Expected(src) ==
  IF Len(src) > 30
  THEN [i \in 1..33 |-> IF i <= 30 THEN src[i] ELSE "."]
  ELSE src

\* C13: the entry saved for a solve has as title the first 30 characters of
\* its title source followed by '...' when the source is longer than 30
\* characters, and the source itself otherwise; the store holds the same.
C13_TitleTruncated ==
  SettledWithSolution =>
    /\ history[1].title = Expected(LastTitleSource)
    /\ storage.text[1].title = Expected(LastTitleSource)

C13_Witness ==
  /\ SettledWithSolution
  /\ Len(history) = 2
  /\ LastTitleSource = TitleChars(TitleMax + 1)
  /\ Len(history[1].title) = TitleMax + 3
  /\ SubSeq(history[1].title, TitleMax + 1, TitleMax + 3) = Ellipsis
  /\ history[2].title = TitleChars(TitleMax)

-----------------------------------------------------------------------------
(* The markup renderer (MathResponse.tsx:10-33), with katex loaded.        *)

\* The least k >= q at which w dollar signs begin in s, or 0
FindDollars(s, q, w) ==
  LET C == {k \in q..(Len(s) - w + 1) : \A d \in 0..(w - 1) : s[k + d] = "$"}
  IN IF C = {} THEN 0 ELSE CHOOSE k \in C : \A m \in C : k <= m

\* The length of the match of /\$\$[\s\S]*?\$\$|\$[\s\S]*?\$/ that begins at
\* p, or 0: the first alternative is tried first, and a lazy body ends at
\* the first closing delimiter
MatchAt(s, p) ==
  IF p + 1 <= Len(s) /\ s[p] = "$" /\ s[p + 1] = "$"
       /\ FindDollars(s, p + 2, 2) # 0
  THEN FindDollars(s, p + 2, 2) + 2 - p
  ELSE IF p <= Len(s) /\ s[p] = "$" /\ FindDollars(s, p + 1, 1) # 0
       THEN FindDollars(s, p + 1, 1) + 1 - p
       ELSE 0

\* Where the leftmost match begins, or 0
FirstMatch(s) ==
  LET C == {p \in 1..Len(s) : MatchAt(s, p) > 0}
  IN IF C = {} THEN 0 ELSE CHOOSE p \in C : \A m \in C : p <= m

\* tex.split(/(...)/g): the texts between the matches and, the pattern
\* being one capture group, the matches themselves
RECURSIVE Split(_)
Split(s) ==
  LET p == FirstMatch(s)
      n == MatchAt(s, p)
  IN IF p = 0 THEN <<s>>
     ELSE <<SubSeq(s, 1, p - 1), SubSeq(s, p, p + n - 1)>>
            \o Split(SubSeq(s, p + n, Len(s)))

StartsWith(s, pre) == Len(s) >= Len(pre) /\ SubSeq(s, 1, Len(pre)) = pre
EndsWith(s, suf) ==
  Len(s) >= Len(suf) /\ SubSeq(s, Len(s) - Len(suf) + 1, Len(s)) = suf

\* part.slice(k, -k)
SliceBoth(s, k) == IF 2 * k >= Len(s) THEN <<>> ELSE SubSeq(s, k + 1, Len(s) - k)

\* MathResponse.tsx:17-26, the span made for one part
RenderPart(part) ==
  IF StartsWith(part, <<"$", "$">>) /\ EndsWith(part, <<"$", "$">>)
  THEN [kind |-> "display", text |-> SliceBoth(part, 2)]
  ELSE IF StartsWith(part, <<"$">>) /\ EndsWith(part, <<"$">>)
       THEN [kind |-> "inline", text |-> SliceBoth(part, 1)]
       ELSE [kind |-> "literal", text |-> part]

\* The spans MathRenderer puts into its container for tex
MathRenderer(tex) ==
  LET parts == Split(tex) IN [i \in 1..Len(parts) |-> RenderPart(parts[i])]

\* The program under solutions whose final answer is any text of up to
\* MaxTexLen characters out of '$' and 'x', or one of two longer texts
SolveNow ==
  <<"S", "o", "l", "v", "e", " ", "$", "x", "+", "1", "=", "2", "$", " ",
    "n", "o", "w">>
Unmatched == <<"$", "x", "+", "1">>
TexInputs ==
  UNION {[1..k -> {"$", "x"}] : k \in 0..MaxTexLen} \cup {SolveNow, Unmatched}
TexResponses ==
  {Response(JsonText(Obj(Str(Description), Arr, Arr, Str(tex)))) :
     tex \in TexInputs}

NextMarkup ==
  \/ loadHistory
  \/ \E v \in InputValues : setInputValue(v)
  \/ \E c \in Steady(2) : WithinBounds /\ handleSend(c)
  \/ \E r \in pending, resp \in TexResponses, c \in Steady(4) :
       processSolutionResume(r, resp, c)

SpecMarkup == Init /\ [][NextMarkup]_vars

\* What the final answer of the last message is rendered as
LastTex == LastMsg.metadata.finalAnswer.v
Dollars(s) == {i \in 1..Len(s) : s[i] = "$"}
Literal(s) == [kind |-> "literal", text |-> s]

\* C14 as stated: a text with one paired inline span (two dollar signs with
\* something between them) is rendered as the literal before, the inline
\* expression without its delimiters and the literal after; a text with an
\* unmatched delimiter (one dollar sign) is rendered as one literal, itself.
C14_SplitOnPairedDelimiters ==
  SettledWithSolution =>
    /\ \A i, j \in Dollars(LastTex) :
         (Dollars(LastTex) = {i, j} /\ i + 1 < j) =>
           MathRenderer(LastTex) =
             << Literal(SubSeq(LastTex, 1, i - 1)),
                [kind |-> "inline", text |-> SubSeq(LastTex, i + 1, j - 1)],
                Literal(SubSeq(LastTex, j + 1, Len(LastTex))) >>
    /\ Cardinality(Dollars(LastTex)) = 1 =>
         MathRenderer(LastTex) = <<Literal(LastTex)>>

\* The two texts the statement names are rendered as it says
C14_Examples ==
  /\ MathRenderer(SolveNow) =
       << Literal(<<"S", "o", "l", "v", "e", " ">>),
          [kind |-> "inline", text |-> <<"x", "+", "1", "=", "2">>],
          Literal(<<" ", "n", "o", "w">>) >>
  /\ MathRenderer(Unmatched) = <<Literal(Unmatched)>>

-----------------------------------------------------------------------------
\* C15: the ids of the messages in the log are pairwise distinct at every
\* clock reading; stated for each pair of a user message and an assistant
\* message, the pair a submit made one clock unit after a completion gives
\* (the two assistant messages one completion can append are C9's case).
C15_MessageIdsDistinct ==
  \A i, j \in 1..Len(messages) :
    (messages[i].role = "user" /\ messages[j].role = "assistant") =>
      messages[i].id # messages[j].id

-----------------------------------------------------------------------------
\* C16: once the history is loaded, a step changes the history log or the
\* store only if it is clearHistory or the settlement of a successful solve,
\* one whose answer is a solution with the required fields; a failed solve, a
\* dropped or refused submit, clearConversation and a change of level leave
\* both as they are.
C16_HistoryWrittenOnlyBySolveOrClear ==
  [][loaded =>
       ((history' # history \/ storage' # storage) =>
          \/ last'.op = "clearHistory"
          \/ /\ last'.op = "settled" /\ last'.outcome = "fulfilled"
             /\ Conforms(messages'[Len(messages')].metadata))]_vars

-----------------------------------------------------------------------------
\* C17: after the startup load the store mirrors the history log: the key
\* holds the text of the log, which parses back to the log entry for entry
\* in the same order, and the key is absent exactly when the log is empty.
C17_StoreMirrorsHistory ==
  loaded =>
    IF storage.present
    THEN /\ storage.text = StringifyHistory(history)
         /\ ParseHistory(storage.text) = history
         /\ history # <<>>
    ELSE history = <<>>

\* A solve has been saved on top of the full history of an earlier session
C17_Witness ==
  /\ loaded /\ storage.present
  /\ SettledWithSolution
  /\ Len(history) = HistoryCap
  /\ history[1].ord = HistoryCap + 1
  /\ history[2].title = OldTitle
  /\ Len(storage.text) = HistoryCap

-----------------------------------------------------------------------------
\* C18: clearHistory is never undone. Once it has run, every entry a step
\* puts into the history log or into the store is the entry of a solve that
\* completes in that step, or was there before the step: no entry from
\* before the clear comes back, also not when a solve issued before the clear
\* succeeds after it.
Entries(h) == {h[i] : i \in 1..Len(h)}

C18_ClearHistoryNeverUndone ==
  [][~noClear =>
       /\ \A e \in Entries(history') : e \in Entries(history) \/ e.ord > nSaved
       /\ \A e \in Entries(storage.text') :
            e \in Entries(storage.text) \/ e.ord > nSaved]_vars

====
